---- MODULE Spec2Model ----
(***************************************************************************)
(* Run execution and evaluation aggregation of openml/runs/functions.py:   *)
(* the partition sweep _run_task_get_arffcontent (repeat x fold x sample), *)
(* its per-task-type prediction rows, the two evaluation-measure maps, the *)
(* trace content, and the trace lookup of initialize_model_from_trace;     *)
(* run_flow_on_task around the sweep (flow synchronisation, duplicate-run  *)
(* guard, run record), run_exists, and the run-document decoder            *)
(* _create_run_from_xml.                                                   *)
(*                                                                         *)
(* Numbers: probabilities and scores are written in tenths (7 is 0.7),     *)
(* accuracy in percent.  None is the empty sequence << >>, a present value *)
(* v is << v >>.  A nested dictionary d[m][r][f] is a function on the key  *)
(* tuples << m, r, f >> that have been assigned.                           *)
(***************************************************************************)
EXTENDS Integers, Sequences, FiniteSets, TLC

VARIABLES
    task,               \* the OpenMLTask: kind, split dimensions, class labels
    model,              \* the model handed to the sweep: [is_hpo, fitted_in]
    ext,                \* behaviour of the extension's fold executor in this run
    add_local_measures, \* the flag of the same name
    pc,                 \* "sweep" | "after_loop" | "returned" | "raised"
    rep_no, fold_no, sample_no,          \* the loop variables
    calls,              \* history: the cells _run_model_on_fold was invoked with
    model_fold,         \* None or the fitted model the last invocation returned
    arff_datacontent,   \* the prediction table
    arff_tracecontent,  \* the trace rows
    user_defined_measures_per_fold,      \* measure, repeat, fold -> value
    user_defined_measures_per_sample,    \* measure, repeat, fold, sample -> value
    error,              \* "none" or the exception that left the sweep
    res,                \* None or the tuple the sweep returned
    trace_iterations,   \* OpenMLRunTrace.trace_iterations of a fetched trace
    args,               \* history: None or the arguments of the last lookup
    request,            \* None or the tuple (repeat, fold, iteration) looked up
    current,            \* outcome of initialize_model_from_trace
    server,             \* what the remote service answers during this behaviour
    flow,               \* the OpenMLFlow argument: [flow_id]
    upload_flow,        \* the flag of the same name
    avoid_duplicate_runs,                \* the flag of the same name
    flow_id,            \* the local variable flow_id of run_flow_on_task
    queries,            \* history: the requests sent to the remote service
    exists_args,        \* history: None or the arguments of the last run_exists
    ids,                \* the set run_exists returned last
    run,                \* None or the OpenMLRun that run_flow_on_task returned
    xml,                \* the run document handed to _create_run_from_xml
    from_server,        \* None or the flag of the last decode
    source_run,         \* None or the run record the document was written from
    decoded,            \* None or the OpenMLRun the decode returned
    cache,              \* per run id: None or the text of its cached description.xml
    remote,             \* per run id: None or the document the service returns for it
    gets                \* history: the get_run calls made, with what each one did

vars == << task, model, ext, add_local_measures, pc, rep_no, fold_no, sample_no,
           calls, model_fold, arff_datacontent, arff_tracecontent,
           user_defined_measures_per_fold, user_defined_measures_per_sample, error,
           res, trace_iterations, args, request, current, server, flow, upload_flow,
           avoid_duplicate_runs, flow_id, queries, exists_args, ids, run, xml,
           from_server, source_run, decoded, cache, remote, gets >>

sweepVars == << task, model, ext, add_local_measures, rep_no, fold_no, sample_no,
                calls, model_fold, arff_datacontent, arff_tracecontent,
                user_defined_measures_per_fold, user_defined_measures_per_sample, res >>

traceVars == << trace_iterations, args, request, current >>

flowVars == << server, flow, upload_flow, avoid_duplicate_runs, flow_id, queries,
               exists_args, ids, run >>

decodeVars == << xml, from_server, source_run, decoded >>

cacheVars == << cache, remote, gets >>

otherVars == << traceVars, flowVars, decodeVars, cacheVars >>

(***************************************************************************)
(* Bounds of the model.                                                    *)
(***************************************************************************)
MaxRepeats == 2
MaxFolds == 2
MaxSamples == 3
MaxClasses == 3
MaxCandidates == 2
MaxIterations == 4
MaxQueries == 2
MaxParameters == 2
MaxEvaluations == 2
MaxLacking == 2

None == << >>

Abs(a) == IF a < 0 THEN 0 - a ELSE a

RECURSIVE SumSeq(_)
SumSeq(s) == IF s = << >> THEN 0 ELSE Head(s) + SumSeq(Tail(s))

(***************************************************************************)
(* The task: type tests and the partition provider.                        *)
(***************************************************************************)
TaskKinds == { "classification", "learning_curve", "regression", "clustering",
               "supervised", "other" }

IsSupervisedTask(t) ==
    t.kind \in { "classification", "learning_curve", "regression", "supervised" }

IsClassificationOrLearningCurve(t) ==
    t.kind \in { "classification", "learning_curve" }

IsRegressionTask(t) == t.kind = "regression"

\* Mutant: the clustering branch taken by every task that is not supervised.
MutIsClusteringTask(t) == ~IsSupervisedTask(t)

IsClusteringTask(t) == t.kind = "clustering"

AllLabels == << "L0", "L1", "L2", "L3", "L4" >>

ClassLabels(k) == SubSeq(AllLabels, 1, k)

NumClasses(t) == Len(t.class_labels)

NumCells(t) == t.num_reps * t.num_folds * t.num_samples

\* Number of the cell (rep, fold, sample) in the sweep, from 1.
CellIndex(t, r, f, s) == r * t.num_folds * t.num_samples + f * t.num_samples + s + 1

\* Test set of fold f: one instance in even folds, two in odd folds, the
\* folds of a repeat partitioning the dataset rows 0, 1, 2, ...
FoldSize(f) == 1 + (f % 2)

FoldBase(f) == (f \div 2) * 3 + (f % 2)

\* The test rows in the order the split lists them: odd repeats list them
\* in descending order.  The samples of a learning curve share the test set.
TestIndices(r, f, s) ==
    [ i \in 1..FoldSize(f) |->
        IF r % 2 = 0 THEN FoldBase(f) + i - 1
                     ELSE FoldBase(f) + FoldSize(f) - i ]

\* The target column: a class index for classification, a value otherwise.
TargetY(t, row) ==
    IF IsClassificationOrLearningCurve(t) THEN (row + 1) % NumClasses(t)
                                          ELSE 3 * row + 1

TestY(t, r, f, s) ==
    [ i \in 1..FoldSize(f) |-> TargetY(t, TestIndices(r, f, s)[i]) ]

(***************************************************************************)
(* The extension (openml/extensions): the fold executor, the trace         *)
(* extraction and the trace object.  ext fixes the run's behaviour: a seed,*)
(* and at most one faulty invocation, which either raises or returns a     *)
(* probability matrix that lacks the column of the last class.             *)
(***************************************************************************)
IsHpoClass(m) == m.is_hpo

FaultAt(t, r, f, s, what) == ext.fault = what /\ ext.at = CellIndex(t, r, f, s)

ProbaColumns(t, r, f, s) ==
    IF FaultAt(t, r, f, s, "short") THEN NumClasses(t) - 1 ELSE NumClasses(t)

PredY(t, r, f, s) ==
    [ i \in 1..FoldSize(f) |->
        LET row == TestIndices(r, f, s)[i] IN
        IF IsClassificationOrLearningCurve(t)
            THEN (row + r + s + ext.seed) % ProbaColumns(t, r, f, s)
        ELSE IF IsClusteringTask(t)
            THEN (row + ext.seed) % 2
        ELSE TargetY(t, row) + ((row + r + ext.seed) % 3) - 1 ]

\* One row of predict_proba for a predicted class index: 0.7 for the
\* predicted class, 0.2 for the classes before it and 0.1 for those after.
ProbaRow(ncols, pred) ==
    [ j \in 1..ncols |-> IF j - 1 = pred THEN 7 ELSE IF j - 1 < pred THEN 2 ELSE 1 ]

ProbaY(t, r, f, s) ==
    IF IsClassificationOrLearningCurve(t)
        THEN [ i \in 1..FoldSize(f) |->
                 ProbaRow(ProbaColumns(t, r, f, s), PredY(t, r, f, s)[i]) ]
        ELSE None

\* The measures the executor reports for the cell, by measure name.
FoldMeasures(r, f, s) ==
    [ m \in { "usercpu_time_millis" } |-> 10 + ((3 * r + 5 * f + 2 * s + ext.seed) % 7) ]

\* What extension._run_model_on_fold returns for a cell.
RunModelOnFold(t, m, r, f, s) ==
    [ pred_y     |-> PredY(t, r, f, s),
      proba_y    |-> ProbaY(t, r, f, s),
      measures   |-> FoldMeasures(r, f, s),
      model_fold |-> [ is_hpo |-> m.is_hpo, fitted_in |-> << r, f, s >> ] ]

\* Mean cross-validation score of candidate it of a fitted search.
CandidateScore(fitted, it) ==
    5 + ((2 * it + fitted.fitted_in[2] + fitted.fitted_in[3] + ext.seed) % 4)

\* best_index_ of the search: the first candidate with the maximal score.
BestIndex(fitted) ==
    CHOOSE b \in 0..(MaxCandidates - 1) :
        /\ \A it \in 0..(MaxCandidates - 1) :
               CandidateScore(fitted, it) <= CandidateScore(fitted, b)
        /\ \A it \in 0..(b - 1) : CandidateScore(fitted, it) < CandidateScore(fitted, b)

\* extension._extract_trace_data: one row per candidate,
\* [repeat, fold, iteration, score, selected].
ExtractTraceData(fitted, r, f) ==
    [ n \in 1..MaxCandidates |->
        << r, f, n - 1, CandidateScore(fitted, n - 1),
           IF n - 1 = BestIndex(fitted) THEN "true" ELSE "false" >> ]

\* extension.obtain_arff_trace: the trace object of a model and trace rows.
ObtainArffTrace(m, content) == [ built_from |-> m, content |-> content ]

(***************************************************************************)
(* _run_task_get_arffcontent: the pieces of one loop iteration.            *)
(***************************************************************************)
\* Mutant: the fold loop nested inside the sample loop.
MutNextCell(t, r, f, s) ==
    IF f + 1 < t.num_folds THEN << r, f + 1, s >>
    ELSE IF s + 1 < t.num_samples THEN << r, 0, s + 1 >>
    ELSE IF r + 1 < t.num_reps THEN << r + 1, 0, 0 >>
    ELSE None

\* The nested range loops: the cell after (r, f, s), None when exhausted.
NextCell(t, r, f, s) ==
    IF s + 1 < t.num_samples THEN << r, f, s + 1 >>
    ELSE IF f + 1 < t.num_folds THEN << r, f + 1, 0 >>
    ELSE IF r + 1 < t.num_reps THEN << r + 1, 0, 0 >>
    ELSE None

\* Mutant: the true label written before the predicted label.
MutClassificationRow(t, r, f, s, i, proba_y, pred_y, test_y) ==
    << r, f, s, i >>
      \o [ j \in 1..NumClasses(t) |-> proba_y[i + 1][j] ]
      \o << t.class_labels[test_y[i + 1] + 1], t.class_labels[pred_y[i + 1] + 1] >>

\* i is the position in range(0, len(test_indices)).
ClassificationRow(t, r, f, s, i, proba_y, pred_y, test_y) ==
    << r, f, s, i >>
      \o [ j \in 1..NumClasses(t) |-> proba_y[i + 1][j] ]
      \o << t.class_labels[pred_y[i + 1] + 1], t.class_labels[test_y[i + 1] + 1] >>

\* Mutant: the position within the fold written as the row id.
MutRegressionRow(r, f, i, test_indices, pred_y, test_y) ==
    << r, f, i, pred_y[i + 1], test_y[i + 1] >>

RegressionRow(r, f, i, test_indices, pred_y, test_y) ==
    << r, f, test_indices[i + 1], pred_y[i + 1], test_y[i + 1] >>

ClusteringRow(i, test_indices, pred_y) ==
    << test_indices[i + 1], pred_y[i + 1] >>

\* The rows of one cell, in the order of range(0, len(test_indices)).
CellRows(t, r, f, s, out) ==
    LET test_indices == TestIndices(r, f, s)
        test_y       == TestY(t, r, f, s)
    IN  [ n \in 1..Len(test_indices) |->
            IF IsClassificationOrLearningCurve(t)
                THEN ClassificationRow(t, r, f, s, n - 1, out.proba_y, out.pred_y, test_y)
            ELSE IF IsRegressionTask(t)
                THEN RegressionRow(r, f, n - 1, test_indices, out.pred_y, test_y)
            ELSE ClusteringRow(n - 1, test_indices, out.pred_y) ]

\* Mutant: the rows also collected in arff_datacontent_fold.
MutExtendDataContent(content, rows) == (content \o rows) \o rows

\* arff_datacontent after the cell: each row appended, then extended by
\* arff_datacontent_fold, which nothing fills.
ExtendDataContent(content, rows) ==
    LET arff_datacontent_fold == << >>
    IN  (content \o rows) \o arff_datacontent_fold

\* arff_tracecontent after the cell.
ExtendTraceContent(content, fitted, r, f) ==
    LET arff_tracecontent_fold ==
            IF IsHpoClass(fitted) THEN ExtractTraceData(fitted, r, f) ELSE << >>
    IN  content \o arff_tracecontent_fold

\* sklearn.metrics.accuracy_score, in percent.
AccuracyScore(test_y, pred_y) ==
    (100 * Cardinality({ i \in DOMAIN test_y : test_y[i] = pred_y[i] })) \div Len(test_y)

\* sklearn.metrics.mean_absolute_error, rounded down.
MeanAbsoluteError(test_y, pred_y) ==
    SumSeq([ i \in DOMAIN test_y |-> Abs(test_y[i] - pred_y[i]) ]) \div Len(test_y)

\* user_defined_measures_fold once the local measure has been added.
WithLocalMeasures(t, measures, local, test_y, pred_y) ==
    LET name == IF IsClassificationOrLearningCurve(t) THEN "predictive_accuracy"
                ELSE "mean_absolute_error"
        add  == local /\ (IsClassificationOrLearningCurve(t) \/ IsRegressionTask(t))
    IN  [ m \in (DOMAIN measures) \cup (IF add THEN { name } ELSE { }) |->
            IF add /\ m = name
                THEN IF IsClassificationOrLearningCurve(t)
                        THEN AccuracyScore(test_y, pred_y)
                        ELSE MeanAbsoluteError(test_y, pred_y)
                ELSE measures[m] ]

\* Mutant: a fold's value is kept once it has been set.
MutAggregatePerFold(pf, measures, r, f) ==
    LET keys == { << m, r, f >> : m \in DOMAIN measures }
    IN  [ k \in (DOMAIN pf) \cup keys |-> IF k \in DOMAIN pf THEN pf[k] ELSE measures[k[1]] ]

\* user_defined_measures_per_fold[measure][rep_no][fold_no] = value
AggregatePerFold(pf, measures, r, f) ==
    LET keys == { << m, r, f >> : m \in DOMAIN measures }
    IN  [ k \in (DOMAIN pf) \cup keys |-> IF k \in keys THEN measures[k[1]] ELSE pf[k] ]

\* user_defined_measures_per_sample[measure][rep_no][fold_no][sample_no] = value
AggregatePerSample(ps, measures, r, f, s) ==
    LET keys == { << m, r, f, s >> : m \in DOMAIN measures }
    IN  [ k \in (DOMAIN ps) \cup keys |-> IF k \in keys THEN measures[k[1]] ELSE ps[k] ]

\* Mutant: the trace built from the model handed in, not from the fitted one.
MutBuildTrace(m, fitted, content) ==
    IF IsHpoClass(m) THEN << ObtainArffTrace(m, content) >> ELSE None

\* The trace built after the loop.
BuildTrace(m, fitted, content) ==
    IF IsHpoClass(m) THEN << ObtainArffTrace(fitted[1], content) >> ELSE None

(***************************************************************************)
(* The sweep as a state machine: one step per loop iteration.              *)
(***************************************************************************)
Tasks ==
    { [ kind |-> k, num_reps |-> r, num_folds |-> f, num_samples |-> s,
        class_labels |-> ClassLabels(c) ] :
        k \in TaskKinds, r \in 1..MaxRepeats, f \in 1..MaxFolds,
        s \in 1..MaxSamples, c \in 2..MaxClasses }

\* Only a learning curve has samples; only a classification has labels.
WellFormedTask(t) ==
    /\ t.kind # "learning_curve" => t.num_samples = 1
    /\ ~IsClassificationOrLearningCurve(t) => t.class_labels = ClassLabels(2)

Behaviours(t) ==
    { [ seed |-> sd, fault |-> ft, at |-> a ] :
        sd \in 0..1, ft \in { "none", "raise", "short" }, a \in 0..NumCells(t) }

WellFormedBehaviour(t, b) ==
    /\ b.fault = "none" <=> b.at = 0
    /\ b.fault = "short" => IsClassificationOrLearningCurve(t)

\* What the remote service answers: flow_exists (0 stands for False),
\* the id a published flow is given, setup_exists (0 stands for False), the
\* listing of runs (code 0 is a listing, any other code a server exception
\* with that code), and the kind of the task get_task fetches.
NoServer ==
    [ flow_id |-> 0, new_flow_id |-> 1, setup_id |-> 0,
      listing |-> [ code |-> 0, runs |-> { } ], task_type |-> "other" ]

FlowIdle ==
    /\ server = NoServer
    /\ flow = [ flow_id |-> None ]
    /\ upload_flow = FALSE
    /\ avoid_duplicate_runs = FALSE
    /\ flow_id = None
    /\ queries = << >>
    /\ exists_args = None
    /\ ids = { }
    /\ run = None

DecodeIdle ==
    /\ xml = None
    /\ from_server = None
    /\ source_run = None
    /\ decoded = None

\* The ids of runs: those a listing returns and those get_run is called with.
RunIds == { 10, 11 }

\* No run is cached, the service knows no run, get_run has not been called.
CacheIdle ==
    /\ cache = [ run_id \in RunIds |-> None ]
    /\ remote = [ run_id \in RunIds |-> None ]
    /\ gets = << >>

TraceInit ==
    /\ trace_iterations = << >>
    /\ args = None
    /\ request = None
    /\ current = None

Init ==
    /\ task \in { t \in Tasks : WellFormedTask(t) }
    /\ model \in { [ is_hpo |-> h, fitted_in |-> None ] : h \in BOOLEAN }
    /\ ext \in { b \in Behaviours(task) : WellFormedBehaviour(task, b) }
    /\ add_local_measures \in BOOLEAN
    /\ pc = "sweep"
    /\ rep_no = 0
    /\ fold_no = 0
    /\ sample_no = 0
    /\ calls = << >>
    /\ model_fold = None
    /\ arff_datacontent = << >>
    /\ arff_tracecontent = << >>
    /\ user_defined_measures_per_fold = << >>
    /\ user_defined_measures_per_sample = << >>
    /\ error = "none"
    /\ res = None
    /\ TraceInit
    /\ FlowIdle
    /\ DecodeIdle
    /\ CacheIdle

\* An exception that is caught inside the loop: the cell is tried again.
MutRaiseRetries(exception) ==
    /\ pc' = pc
    /\ error' = exception
    /\ UNCHANGED << task, model, ext, add_local_measures, rep_no, fold_no, sample_no,
                    arff_datacontent, arff_tracecontent,
                    user_defined_measures_per_fold, user_defined_measures_per_sample,
                    res >>
    /\ UNCHANGED otherVars

Raise(exception) ==
    /\ pc' = "raised"
    /\ error' = exception
    /\ UNCHANGED << task, model, ext, add_local_measures, rep_no, fold_no, sample_no,
                    arff_datacontent, arff_tracecontent,
                    user_defined_measures_per_fold, user_defined_measures_per_sample,
                    res >>
    /\ UNCHANGED otherVars

\* Neither a supervised nor a clustering task: raise NotImplementedError.
RaiseNotImplemented ==
    /\ pc = "sweep"
    /\ ~IsSupervisedTask(task) /\ ~IsClusteringTask(task)
    /\ UNCHANGED << calls, model_fold >>
    /\ Raise("NotImplementedError")

CanInvoke == pc = "sweep" /\ (IsSupervisedTask(task) \/ IsClusteringTask(task))

\* The fold executor raises: the condition leaves the sweep.
ExecutorRaises ==
    /\ CanInvoke
    /\ FaultAt(task, rep_no, fold_no, sample_no, "raise")
    /\ calls' = Append(calls, << rep_no, fold_no, sample_no >>)
    /\ UNCHANGED model_fold
    /\ Raise("ExecutorError")

Returns == CanInvoke /\ ~FaultAt(task, rep_no, fold_no, sample_no, "raise")

Invoked ==
    /\ calls' = Append(calls, << rep_no, fold_no, sample_no >>)
    /\ model_fold' = << RunModelOnFold(task, model, rep_no, fold_no, sample_no).model_fold >>

\* proba_y[i][j] past the last column of the first row: IndexError.
RaiseIndexError ==
    /\ Returns
    /\ IsClassificationOrLearningCurve(task)
    /\ Len(TestIndices(rep_no, fold_no, sample_no)) > 0
    /\ ProbaColumns(task, rep_no, fold_no, sample_no) < NumClasses(task)
    /\ Invoked
    /\ Raise("IndexError")

\* A supervised task of no known kind: raise TypeError after the executor.
RaiseTypeError ==
    /\ Returns
    /\ ~IsClassificationOrLearningCurve(task)
    /\ ~IsRegressionTask(task)
    /\ ~IsClusteringTask(task)
    /\ Invoked
    /\ Raise("TypeError")

\* One complete iteration of the loop body.
RunCell ==
    /\ Returns
    /\ \/ /\ IsClassificationOrLearningCurve(task)
          /\ ProbaColumns(task, rep_no, fold_no, sample_no) >= NumClasses(task)
       \/ IsRegressionTask(task)
       \/ IsClusteringTask(task)
    /\ Invoked
    /\ LET out      == RunModelOnFold(task, model, rep_no, fold_no, sample_no)
           measures == WithLocalMeasures(task, out.measures, add_local_measures,
                                         TestY(task, rep_no, fold_no, sample_no),
                                         out.pred_y)
           next     == NextCell(task, rep_no, fold_no, sample_no)
       IN  /\ arff_datacontent' =
                  ExtendDataContent(arff_datacontent,
                                    CellRows(task, rep_no, fold_no, sample_no, out))
           /\ arff_tracecontent' =
                  ExtendTraceContent(arff_tracecontent, out.model_fold, rep_no, fold_no)
           /\ user_defined_measures_per_fold' =
                  AggregatePerFold(user_defined_measures_per_fold, measures,
                                   rep_no, fold_no)
           /\ user_defined_measures_per_sample' =
                  AggregatePerSample(user_defined_measures_per_sample, measures,
                                     rep_no, fold_no, sample_no)
           /\ IF next = None
                 THEN pc' = "after_loop" /\ UNCHANGED << rep_no, fold_no, sample_no >>
                 ELSE /\ pc' = "sweep"
                      /\ rep_no' = next[1]
                      /\ fold_no' = next[2]
                      /\ sample_no' = next[3]
    /\ UNCHANGED << task, model, ext, add_local_measures, error, res >>
    /\ UNCHANGED otherVars

\* After the loop: build the trace and return the four results.
ReturnResults ==
    /\ pc = "after_loop"
    /\ pc' = "returned"
    /\ res' = << [ arff_datacontent |-> arff_datacontent,
                   trace |-> BuildTrace(model, model_fold, arff_tracecontent),
                   user_defined_measures_per_fold |-> user_defined_measures_per_fold,
                   user_defined_measures_per_sample |-> user_defined_measures_per_sample ] >>
    /\ UNCHANGED << task, model, ext, add_local_measures, rep_no, fold_no, sample_no,
                    calls, model_fold, arff_datacontent, arff_tracecontent,
                    user_defined_measures_per_fold, user_defined_measures_per_sample,
                    error >>
    /\ UNCHANGED otherVars

Next ==
    \/ RaiseNotImplemented
    \/ ExecutorRaises
    \/ RaiseIndexError
    \/ RaiseTypeError
    \/ RunCell
    \/ ReturnResults

Spec == Init /\ [][Next]_vars

(***************************************************************************)
(* initialize_model_from_trace: the lookup of a trace iteration by         *)
(* (repeat, fold, iteration), the iteration being optional.                *)
(***************************************************************************)
ScoreValues == { 5, 7, 9 }

TraceRepeats == 0..1

TraceFolds == 0..1

\* The iterations a trace holds for (repeat, fold).
IterationsOf(tr, repeat, fold) ==
    { k[3] : k \in { q \in DOMAIN tr : q[1] = repeat /\ q[2] = fold } }

\* OpenMLRunTrace.get_selected_iteration: the iteration of (repeat, fold)
\* with the maximal score, the lowest index among equals; None if the trace
\* holds no iteration of (repeat, fold).
GetSelectedIteration(tr, repeat, fold) ==
    LET its == IterationsOf(tr, repeat, fold)
    IN  IF its = { } THEN None
        ELSE << CHOOSE b \in its :
                  \A i \in its :
                      \/ tr[<< repeat, fold, i >>].score < tr[<< repeat, fold, b >>].score
                      \/ /\ tr[<< repeat, fold, i >>].score = tr[<< repeat, fold, b >>].score
                         /\ b <= i >>

\* Mutant: repeat and fold handed over in the other order.
MutResolveIteration(tr, repeat, fold, iteration) ==
    IF iteration = None THEN GetSelectedIteration(tr, fold, repeat) ELSE iteration

\* if iteration is None: iteration = run_trace.get_selected_iteration(repeat, fold)
ResolveIteration(tr, repeat, fold, iteration) ==
    IF iteration = None THEN GetSelectedIteration(tr, repeat, fold) ELSE iteration

\* A trace whose (repeat, fold) groups all hold Len(scores) iterations, the
\* scores of group (repeat, fold) being scores rotated by repeat + 2 * fold.
TraceOf(scores) ==
    [ k \in { << r, f, i >> : r \in TraceRepeats, f \in TraceFolds,
                              i \in 0..(Len(scores) - 1) } |->
        [ repeat |-> k[1], fold |-> k[2], iteration |-> k[3],
          score  |-> scores[((k[3] + k[1] + 2 * k[2]) % Len(scores)) + 1] ] ]

ScoreLists == UNION { [ 1..n -> ScoreValues ] : n \in 1..MaxIterations }

SweepIdle ==
    /\ task = [ kind |-> "classification", num_reps |-> 1, num_folds |-> 1,
                num_samples |-> 1, class_labels |-> ClassLabels(2) ]
    /\ model = [ is_hpo |-> TRUE, fitted_in |-> None ]
    /\ ext = [ seed |-> 0, fault |-> "none", at |-> 0 ]
    /\ add_local_measures = FALSE
    /\ rep_no = 0
    /\ fold_no = 0
    /\ sample_no = 0
    /\ calls = << >>
    /\ model_fold = None
    /\ arff_datacontent = << >>
    /\ arff_tracecontent = << >>
    /\ user_defined_measures_per_fold = << >>
    /\ user_defined_measures_per_sample = << >>
    /\ res = None

InitTrace ==
    /\ SweepIdle
    /\ pc = "lookup"
    /\ error = "none"
    /\ trace_iterations \in { TraceOf(sc) : sc \in ScoreLists }
    /\ args = None
    /\ request = None
    /\ current = None
    /\ FlowIdle
    /\ DecodeIdle
    /\ CacheIdle

\* One call of initialize_model_from_trace(run_id, repeat, fold, iteration).
InitializeModelFromTrace(repeat, fold, iteration) ==
    /\ pc = "lookup"
    /\ args' = << [ repeat |-> repeat, fold |-> fold, iteration |-> iteration ] >>
    /\ LET it == ResolveIteration(trace_iterations, repeat, fold, iteration)
       IN  IF it = None
              THEN \* get_selected_iteration finds no iteration and raises
                   /\ request' = None
                   /\ current' = None
                   /\ error' = "ValueError"
              ELSE /\ request' = << << repeat, fold, it[1] >> >>
                   /\ IF << repeat, fold, it[1] >> \in DOMAIN trace_iterations
                         THEN /\ current' = << trace_iterations[<< repeat, fold, it[1] >>] >>
                              /\ error' = "none"
                         ELSE /\ current' = None
                              /\ error' = "ValueError"
    /\ UNCHANGED << pc, trace_iterations >>
    /\ UNCHANGED << sweepVars, flowVars, decodeVars, cacheVars >>

NextTrace ==
    \E repeat \in 0..2, fold \in TraceFolds,
       iteration \in { None } \cup { << i >> : i \in 0..MaxIterations } :
        InitializeModelFromTrace(repeat, fold, iteration)

SpecTrace == InitTrace /\ [][NextTrace]_vars

(***************************************************************************)
(* run_exists: the duplicate-run lookup.                                   *)
(***************************************************************************)
\* Arguments the lookup is called with, and the run ids the service holds.
TaskIds == { 1, 2 }

SetupIds == -1..2

\* The answers of the run listing: a set of run ids, or a server exception
\* with code 512 ("no results") or with another code.
Listings ==
    { [ code |-> 0, runs |-> rs ] : rs \in SUBSET RunIds }
        \cup { [ code |-> c, runs |-> { } ] : c \in { 512, 500 } }

\* One request to the remote service, as the history records it.
Query(op, task_id, setup_id) == [ op |-> op, task |-> task_id, setup |-> setup_id ]

\* A lookup that takes 0 for a setup id and asks the service about it.
MutRunExistsAsksForZero(task_id, setup_id, listing) ==
    IF setup_id < 0
       THEN [ queried |-> FALSE, raised |-> "none", result |-> { } ]
       ELSE [ queried |-> TRUE, raised |-> "none", result |-> listing.runs ]

\* A lookup that lets the server exception with code 512 escape.
MutRunExistsRaisesOn512(task_id, setup_id, listing) ==
    IF setup_id <= 0
       THEN [ queried |-> FALSE, raised |-> "none", result |-> { } ]
       ELSE IF listing.code = 0
               THEN [ queried |-> TRUE, raised |-> "none", result |-> listing.runs ]
               ELSE [ queried |-> TRUE, raised |-> "OpenMLServerException",
                      result |-> { } ]

\* A lookup that takes every server exception for "no results".
MutRunExistsSwallowsErrors(task_id, setup_id, listing) ==
    IF setup_id <= 0
       THEN [ queried |-> FALSE, raised |-> "none", result |-> { } ]
       ELSE [ queried |-> TRUE, raised |-> "none", result |-> listing.runs ]

\* run_exists(task_id, setup_id): whether list_runs was called, the exception
\* that left the function ("none" when it returned) and the set returned.
RunExists(task_id, setup_id, listing) ==
    IF setup_id <= 0
       THEN [ queried |-> FALSE, raised |-> "none", result |-> { } ]
       ELSE IF listing.code = 0
               THEN [ queried |-> TRUE, raised |-> "none",
                      result |-> IF Cardinality(listing.runs) > 0
                                    THEN listing.runs ELSE { } ]
               ELSE IF listing.code = 512
                       THEN [ queried |-> TRUE, raised |-> "none", result |-> { } ]
                       ELSE [ queried |-> TRUE, raised |-> "AssertionError",
                              result |-> { } ]

InitGuard ==
    /\ SweepIdle
    /\ TraceInit
    /\ DecodeIdle
    /\ CacheIdle
    /\ pc = "guard"
    /\ error = "none"
    /\ server \in { [ NoServer EXCEPT !.listing = l ] : l \in Listings }
    /\ flow = [ flow_id |-> None ]
    /\ upload_flow = FALSE
    /\ avoid_duplicate_runs = FALSE
    /\ flow_id = None
    /\ queries = << >>
    /\ exists_args = None
    /\ ids = { }
    /\ run = None

\* One call of run_exists(task_id, setup_id).
CallRunExists(task_id, setup_id) ==
    /\ pc = "guard"
    /\ Len(queries) < MaxQueries
    /\ LET out == RunExists(task_id, setup_id, server.listing)
       IN  /\ exists_args' = << [ task_id |-> task_id, setup_id |-> setup_id ] >>
           /\ queries' = IF out.queried
                            THEN Append(queries, Query("list_runs", task_id, setup_id))
                            ELSE queries
           /\ ids' = out.result
           /\ error' = out.raised
    /\ UNCHANGED << pc, server, flow, upload_flow, avoid_duplicate_runs, flow_id, run >>
    /\ UNCHANGED << sweepVars, traceVars, decodeVars, cacheVars >>

NextGuard == \E task_id \in TaskIds, setup_id \in SetupIds : CallRunExists(task_id, setup_id)

SpecGuard == InitGuard /\ [][NextGuard]_vars

(***************************************************************************)
(* run_flow_on_task: flow synchronisation and duplicate guard, the sweep,  *)
(* the run record.                                                         *)
(***************************************************************************)
\* task.task_id of the task argument.
TaskIdOf(t) == 1

\* A synchronisation that goes on to the sweep although the lookup found runs.
MutSyncFlowIgnoresRuns(fl, up, avoid, srv, task_id) ==
    LET found == IF srv.flow_id # 0 THEN << srv.flow_id >> ELSE None
        out   == RunExists(task_id, srv.setup_id, srv.listing)
        asked == up \/ avoid
        guard == avoid /\ found # None
    IN  [ raised |-> IF asked /\ fl.flow_id # None /\ fl.flow_id # found
                        THEN "PyOpenMLError" ELSE "none",
          flow_id |-> IF asked THEN found ELSE None,
          flow |-> IF asked /\ found # None THEN [ flow_id |-> found ] ELSE fl,
          queries |-> IF ~asked THEN << >>
                      ELSE << Query("flow_exists", 0, 0) >>
                               \o IF guard /\ out.queried
                                     THEN << Query("list_runs", task_id, srv.setup_id) >>
                                     ELSE << >>,
          exists_args |-> IF guard
                             THEN << [ task_id |-> task_id, setup_id |-> srv.setup_id ] >>
                             ELSE None,
          ids |-> IF guard THEN out.result ELSE { } ]

\* Lines 174-203: what the synchronisation with the service leaves behind.
\* raised is the exception that left run_flow_on_task, or "none".
SyncFlow(fl, up, avoid, srv, task_id) ==
    LET local == [ raised |-> "none", flow_id |-> None, flow |-> fl,
                   queries |-> << >>, exists_args |-> None, ids |-> { } ]
        found == srv.flow_id
        q1    == << Query("flow_exists", 0, 0) >>
    IN  IF ~(up \/ avoid)
           THEN local
        ELSE IF fl.flow_id # None /\ fl.flow_id[1] # found
           THEN [ local EXCEPT !.raised = "PyOpenMLError", !.queries = q1 ]
        ELSE IF up /\ found = 0
           THEN \* flow.publish(); flow_id = flow.flow_id
                [ local EXCEPT !.flow = [ flow_id |-> << srv.new_flow_id >> ],
                               !.flow_id = << srv.new_flow_id >>,
                               !.queries = q1 \o << Query("publish", 0, 0) >> ]
        ELSE IF found # 0
           THEN LET q2     == q1 \o << Query("get_flow", 0, 0) >>
                    synced == [ local EXCEPT !.flow = [ flow_id |-> << found >> ],
                                             !.flow_id = << found >>,
                                             !.queries = q2 ]
                    out    == RunExists(task_id, srv.setup_id, srv.listing)
                    q3     == q2 \o << Query("setup_exists", 0, 0) >>
                                 \o IF out.queried
                                       THEN << Query("list_runs", task_id, srv.setup_id) >>
                                       ELSE << >>
                IN  IF ~avoid
                       THEN synced
                       ELSE [ synced EXCEPT
                                !.queries = q3,
                                !.exists_args = << [ task_id |-> task_id,
                                                     setup_id |-> srv.setup_id ] >>,
                                !.ids = out.result,
                                !.raised = IF out.raised # "none" THEN out.raised
                                           ELSE IF out.result # { }
                                                   THEN "OpenMLRunsExistError"
                                                   ELSE "none" ]
           ELSE \* the flow is not on the server and is not uploaded
                [ local EXCEPT !.queries = q1 ]

\* A record that takes its flow id from the flow object.
MutRunRecord(t, fl, fid, up, avoid, results) ==
    [ task_id |-> TaskIdOf(t),
      flow_id |-> fl.flow_id,
      data_content |-> << results.arff_datacontent >>,
      trace |-> results.trace,
      parameter_settings |-> None,
      fold_evaluations |-> << results.user_defined_measures_per_fold >>,
      sample_evaluations |-> None ]

\* A run record that carries both maps of the sweep, whatever the task type.
MutRunRecordBothMaps(t, fl, fid, up, avoid, results) ==
    [ task_id |-> TaskIdOf(t),
      flow_id |-> fid,
      data_content |-> << results.arff_datacontent >>,
      trace |-> results.trace,
      parameter_settings |->
          IF (up \/ avoid) /\ fl.flow_id # None
             THEN << "obtain_parameter_values" >> ELSE None,
      fold_evaluations |-> << results.user_defined_measures_per_fold >>,
      sample_evaluations |-> << results.user_defined_measures_per_sample >> ]

\* Lines 218-243: the OpenMLRun built from the sweep's results.
RunRecord(t, fl, fid, up, avoid, results) ==
    [ task_id |-> TaskIdOf(t),
      flow_id |-> fid,
      data_content |-> << results.arff_datacontent >>,
      trace |-> results.trace,
      parameter_settings |->
          IF (up \/ avoid) /\ fl.flow_id # None
             THEN << "obtain_parameter_values" >> ELSE None,
      fold_evaluations |->
          IF t.kind = "learning_curve"
             THEN None ELSE << results.user_defined_measures_per_fold >>,
      sample_evaluations |->
          IF t.kind = "learning_curve"
             THEN << results.user_defined_measures_per_sample >> ELSE None ]

\* The tasks run_flow_on_task is explored with: one repeat, two folds, and
\* two samples for a learning curve.
FlowTasks ==
    { t \in Tasks : /\ WellFormedTask(t)
                    /\ t.num_reps = 1
                    /\ t.num_folds = 2
                    /\ t.num_samples = (IF t.kind = "learning_curve" THEN 2 ELSE 1)
                    /\ t.class_labels = ClassLabels(2) }

\* The service knows the flow under id 9 or not at all, gives a published
\* flow the id 8, knows the setup under id 5 or not at all.
Servers ==
    { [ flow_id |-> f, new_flow_id |-> 8, setup_id |-> su, listing |-> l,
        task_type |-> "other" ] :
        f \in { 0, 9 }, su \in { 0, 5 },
        l \in { x \in Listings : x.runs \in { { }, RunIds } } }

InitFlow ==
    /\ task \in FlowTasks
    /\ model \in { [ is_hpo |-> h, fitted_in |-> None ] : h \in BOOLEAN }
    /\ ext \in { b \in Behaviours(task) : WellFormedBehaviour(task, b) /\ b.seed = 0 }
    /\ add_local_measures = TRUE
    /\ pc = "start"
    /\ rep_no = 0
    /\ fold_no = 0
    /\ sample_no = 0
    /\ calls = << >>
    /\ model_fold = None
    /\ arff_datacontent = << >>
    /\ arff_tracecontent = << >>
    /\ user_defined_measures_per_fold = << >>
    /\ user_defined_measures_per_sample = << >>
    /\ error = "none"
    /\ res = None
    /\ TraceInit
    /\ DecodeIdle
    /\ CacheIdle
    /\ server \in Servers
    /\ flow \in { [ flow_id |-> i ] : i \in { None, << 9 >>, << 7 >> } }
    /\ upload_flow \in BOOLEAN
    /\ avoid_duplicate_runs \in BOOLEAN
    /\ flow_id = None
    /\ queries = << >>
    /\ exists_args = None
    /\ ids = { }
    /\ run = None

\* Lines 158-205: everything run_flow_on_task does before the sweep.
StartRun ==
    /\ pc = "start"
    /\ LET sync == SyncFlow(flow, upload_flow, avoid_duplicate_runs, server,
                            TaskIdOf(task))
       IN  /\ flow' = sync.flow
           /\ flow_id' = sync.flow_id
           /\ queries' = sync.queries
           /\ exists_args' = sync.exists_args
           /\ ids' = sync.ids
           /\ error' = sync.raised
           /\ pc' = IF sync.raised = "none" THEN "sweep" ELSE "raised"
    /\ UNCHANGED << server, upload_flow, avoid_duplicate_runs, run >>
    /\ UNCHANGED << sweepVars, traceVars, decodeVars, cacheVars >>

\* Lines 218-251: the sweep has returned; build and return the run.
ReturnRun ==
    /\ pc = "returned"
    /\ pc' = "done"
    /\ run' = << RunRecord(task, flow, flow_id, upload_flow, avoid_duplicate_runs,
                           res[1]) >>
    /\ UNCHANGED << server, flow, upload_flow, avoid_duplicate_runs, flow_id, queries,
                    exists_args, ids, error >>
    /\ UNCHANGED << sweepVars, traceVars, decodeVars, cacheVars >>

NextFlow ==
    \/ StartRun
    \/ RaiseNotImplemented
    \/ ExecutorRaises
    \/ RaiseIndexError
    \/ RaiseTypeError
    \/ RunCell
    \/ ReturnResults
    \/ ReturnRun

SpecFlow == InitFlow /\ [][NextFlow]_vars

(***************************************************************************)
(* _create_run_from_xml: the run document and its decoder.                 *)
(*                                                                         *)
(* A run document is the dictionary xmltodict.parse returns.  Element text *)
(* is a string; an empty element, which xmltodict parses to None, is the   *)
(* empty string.  A key of the dictionary is absent (<< >>) or present     *)
(* with its text (<< text >>).  Numbers are written as decimal numerals,   *)
(* evaluation values as decimals with one fractional digit.                *)
(***************************************************************************)
Null == ""

\* The decimal numerals of 0, 1, 2, ...
Numerals == << "0", "1", "2", "3", "4", "5", "6", "7", "8", "9", "10", "11", "12" >>

\* The decimals of 0.0, 0.1, ... in tenths.
Decimals == << "0.0", "0.1", "0.2", "0.3", "0.4", "0.5", "0.6", "0.7", "0.8", "0.9",
               "1.0" >>

IsNumeral(text) == \E n \in 1..Len(Numerals) : Numerals[n] = text

IsDecimal(text) == \E n \in 1..Len(Decimals) : Decimals[n] = text

\* int(text) and float(text) of a text that is a number.
IntOf(text) == (CHOOSE n \in 1..Len(Numerals) : Numerals[n] = text) - 1

FloatOf(text) == (CHOOSE n \in 1..Len(Decimals) : Decimals[n] = text) - 1

\* The exception of int(x) and of float(x): TypeError on None, ValueError on
\* a text that is no number, "none" when the conversion succeeds.
IntCastError(text) ==
    IF text = Null THEN "TypeError"
    ELSE IF IsNumeral(text) THEN "none" ELSE "ValueError"

FloatCastError(text) ==
    IF text = Null THEN "TypeError"
    ELSE IF IsDecimal(text) \/ IsNumeral(text) THEN "none" ELSE "ValueError"

FloatCast(text) == IF IsDecimal(text) THEN FloatOf(text) ELSE 10 * IntOf(text)

\* The Python value of an element's text: None for an empty element.
TextValue(text) == IF text = Null THEN None ELSE << text >>

\* A field lookup that returns None for an absent field in either mode.
MutObtainFieldLenient(xml_obj, fieldname, strict, cast) ==
    IF xml_obj[fieldname] = << >> \/ xml_obj[fieldname][1] = Null
       THEN [ raised |-> "none", value |-> None ]
       ELSE [ raised |-> "none",
              value |-> IF cast THEN << IntOf(xml_obj[fieldname][1]) >>
                                ELSE << xml_obj[fieldname][1] >> ]

\* obtain_field(xml_obj, fieldname, from_server, cast): the exception raised
\* ("none" when the call returns) and the value returned; cast is int or
\* absent.
ObtainField(xml_obj, fieldname, strict, cast) ==
    IF xml_obj[fieldname] # << >>
       THEN LET text == xml_obj[fieldname][1]
            IN  IF cast
                   THEN IF IntCastError(text) # "none"
                           THEN [ raised |-> IntCastError(text), value |-> None ]
                           ELSE [ raised |-> "none", value |-> << IntOf(text) >> ]
                   ELSE [ raised |-> "none", value |-> TextValue(text) ]
       ELSE IF ~strict
               THEN [ raised |-> "none", value |-> None ]
               ELSE [ raised |-> "AttributeError", value |-> None ]

\* A decoder that reads the parameter settings of a run without flow id.
MutFlowOfKeepsParameters(doc, strict) ==
    IF ~strict /\ doc.flow_id = << >>
       THEN [ raised |-> "KeyError", flow_id |-> None, parameters |-> None ]
       ELSE [ raised |-> IF doc.flow_id = << >> THEN "AttributeError"
                         ELSE IF doc.flow_id[1] = Null /\ ~strict THEN "none"
                         ELSE IntCastError(doc.flow_id[1]),
              flow_id |-> IF doc.flow_id # << >> /\ IsNumeral(doc.flow_id[1])
                             THEN << IntOf(doc.flow_id[1]) >> ELSE None,
              parameters |-> << doc.parameter_setting >> ]

\* Lines 628-646: flow_id and the parameter settings.  In lenient mode the
\* test reads run['oml:flow_id'], a KeyError when the key is absent.
FlowOf(doc, strict) ==
    IF ~strict /\ doc.flow_id = << >>
       THEN [ raised |-> "KeyError", flow_id |-> None, parameters |-> None ]
    ELSE IF ~strict /\ doc.flow_id[1] = Null
       THEN [ raised |-> "none", flow_id |-> None, parameters |-> None ]
       ELSE LET got == ObtainField(doc, "flow_id", strict, TRUE)
            IN  [ raised |-> got.raised,
                  flow_id |-> got.value,
                  parameters |->
                      << [ n \in 1..Len(doc.parameter_setting) |->
                             [ name |-> doc.parameter_setting[n].name,
                               value |-> doc.parameter_setting[n].value,
                               component |-> doc.parameter_setting[n].component ] ] >> ]

\* Lines 652-655: dataset_id; in strict mode an absent input_data leaves the
\* local variable unbound.
DatasetOf(doc, strict) ==
    IF doc.input_data # << >>
       THEN IF IntCastError(doc.input_data[1]) # "none"
               THEN [ raised |-> IntCastError(doc.input_data[1]), bound |-> FALSE,
                      dataset_id |-> None ]
               ELSE [ raised |-> "none", bound |-> TRUE,
                      dataset_id |-> << IntOf(doc.input_data[1]) >> ]
       ELSE [ raised |-> "none", bound |-> ~strict, dataset_id |-> None ]

\* The first exception in a sequence of outcomes, "none" when there is none.
RECURSIVE FirstRaised(_)
FirstRaised(outcomes) ==
    IF outcomes = << >> THEN "none"
    ELSE IF Head(outcomes) # "none" THEN Head(outcomes)
    ELSE FirstRaised(Tail(outcomes))

\* The last position of a sequence whose entry satisfies the key test.
LastOf(positions) == CHOOSE i \in positions : \A j \in positions : j <= i

\* Lines 666-669: files[name] = int(file_id), a later entry replacing an
\* earlier one of the same name.
FilesOf(file) ==
    [ name \in { file[i].name : i \in 1..Len(file) } |->
        IntOf(file[LastOf({ i \in 1..Len(file) : file[i].name = name })].file_id) ]

\* A routing that does not look at the sample attribute.
MutRouteOf(e) == IF e.repeat # << >> /\ e.fold # << >> THEN "fold" ELSE "global"

\* Where an evaluation entry is stored: lines 683-704.
RouteOf(e) ==
    IF e.repeat # << >> /\ e.fold # << >> /\ e.sample # << >> THEN "sample"
    ELSE IF e.repeat # << >> /\ e.fold # << >> THEN "fold"
    ELSE "global"

\* Lines 675-682 and the int casts of lines 685-687, 695-696.
EvaluationRaised(e) ==
    FirstRaised(<< IF e.value # << >> THEN FloatCastError(e.value[1])
                   ELSE IF e.array_data # << >> THEN "none"
                   ELSE "ValueError",
                   IF RouteOf(e) \in { "sample", "fold" }
                      THEN IntCastError(e.repeat[1]) ELSE "none",
                   IF RouteOf(e) \in { "sample", "fold" }
                      THEN IntCastError(e.fold[1]) ELSE "none",
                   IF RouteOf(e) = "sample" THEN IntCastError(e.sample[1]) ELSE "none" >>)

\* The value stored for an entry: the float of its value, else its
\* array_data as it stands.
EvaluationValue(e) ==
    IF e.value # << >>
       THEN [ float |-> << FloatCast(e.value[1]) >>, array_data |-> None ]
       ELSE [ float |-> None, array_data |-> e.array_data ]

\* The key under which an entry is stored in the map it is routed to.
EvaluationKey(e) ==
    IF RouteOf(e) = "sample"
       THEN << e.name, IntOf(e.repeat[1]), IntOf(e.fold[1]), IntOf(e.sample[1]) >>
    ELSE IF RouteOf(e) = "fold"
       THEN << e.name, IntOf(e.repeat[1]), IntOf(e.fold[1]) >>
       ELSE << e.name >>

\* Evaluation maps in which the first entry of a key stays.
MutEvaluationsOfFirstWins(evaluation, route) ==
    LET routed == { i \in 1..Len(evaluation) : RouteOf(evaluation[i]) = route }
    IN  [ key \in { EvaluationKey(evaluation[i]) : i \in routed } |->
            EvaluationValue(
                evaluation[CHOOSE i \in routed :
                               /\ EvaluationKey(evaluation[i]) = key
                               /\ \A j \in routed :
                                      EvaluationKey(evaluation[j]) = key => i <= j]) ]

\* One of the three evaluation maps after all entries have been stored in
\* document order.
EvaluationsOf(evaluation, route) ==
    LET routed == { i \in 1..Len(evaluation) : RouteOf(evaluation[i]) = route }
    IN  [ key \in { EvaluationKey(evaluation[i]) : i \in routed } |->
            EvaluationValue(
                evaluation[LastOf({ i \in routed : EvaluationKey(evaluation[i]) = key })]) ]

\* Lines 657-705: the exception of the output_data block.
OutputRaised(doc, strict) ==
    IF doc.output_data = << >>
       THEN IF strict THEN "ValueError" ELSE "none"
       ELSE LET out == doc.output_data[1]
            IN  FirstRaised(
                    [ i \in 1..Len(out.file) |-> IntCastError(out.file[i].file_id) ]
                        \o [ i \in 1..Len(out.evaluation) |->
                               EvaluationRaised(out.evaluation[i]) ])

\* The files of the document, empty without output_data.
FileList(doc) == IF doc.output_data = << >> THEN << >> ELSE doc.output_data[1].file

EvaluationList(doc) ==
    IF doc.output_data = << >> THEN << >> ELSE doc.output_data[1].evaluation

HasFile(doc, name) == \E i \in 1..Len(FileList(doc)) : FileList(doc)[i].name = name

\* Lines 707-723: the checks of the description and predictions files.
DescriptionRaised(doc, strict) ==
    IF ~HasFile(doc, "description") /\ strict THEN "ValueError" ELSE "none"

\* A check that does not look at the kind of the task.
MutPredictionsRaised(doc, strict, task_type) ==
    IF ~HasFile(doc, "predictions") /\ strict THEN "ValueError" ELSE "none"

PredictionsRaised(doc, strict, task_type) ==
    IF ~HasFile(doc, "predictions") /\ strict
       THEN IF task_type = "subgroup_discovery"
               THEN "NotImplementedError" ELSE "ValueError"
       ELSE "none"

\* openml.utils.extract_xml_tags('oml:tag', run): the list of tags, None
\* when the document has none.
ExtractXmlTags(doc) == IF doc.tag = << >> THEN None ELSE << doc.tag >>

\* task_id = int(run['oml:task_id']): a KeyError when the key is absent.
TaskIdRaised(doc) ==
    IF doc.task_id = << >> THEN "KeyError" ELSE IntCastError(doc.task_id[1])

\* The exception that leaves _create_run_from_xml, in the order in which the
\* statements of lines 616-727 can raise; "none" when the run is returned.
CreateRunRaised(doc, strict, task_type) ==
    FirstRaised(<< ObtainField(doc, "run_id", strict, TRUE).raised,
                   ObtainField(doc, "uploader", strict, TRUE).raised,
                   ObtainField(doc, "uploader_name", strict, FALSE).raised,
                   TaskIdRaised(doc),
                   ObtainField(doc, "task_type", strict, FALSE).raised,
                   FlowOf(doc, strict).raised,
                   ObtainField(doc, "flow_name", strict, FALSE).raised,
                   ObtainField(doc, "setup_id", strict, TRUE).raised,
                   ObtainField(doc, "setup_string", strict, FALSE).raised,
                   DatasetOf(doc, strict).raised,
                   OutputRaised(doc, strict),
                   DescriptionRaised(doc, strict),
                   PredictionsRaised(doc, strict, task_type),
                   IF DatasetOf(doc, strict).bound THEN "none" ELSE "UnboundLocalError" >>)

\* The OpenMLRun of lines 727-738; the prediction table and the trace are
\* not among the constructor's arguments and keep its default None.
CreatedRun(doc, strict) ==
    [ run_id |-> ObtainField(doc, "run_id", strict, TRUE).value,
      uploader |-> ObtainField(doc, "uploader", strict, TRUE).value,
      uploader_name |-> ObtainField(doc, "uploader_name", strict, FALSE).value,
      task_id |-> << IntOf(doc.task_id[1]) >>,
      task_type |-> ObtainField(doc, "task_type", strict, FALSE).value,
      task_evaluation_measure |->
          IF doc.task_evaluation_measure # << >>
             THEN TextValue(doc.task_evaluation_measure[1]) ELSE None,
      flow_id |-> FlowOf(doc, strict).flow_id,
      flow_name |-> ObtainField(doc, "flow_name", strict, FALSE).value,
      setup_id |-> ObtainField(doc, "setup_id", strict, TRUE).value,
      setup_string |-> ObtainField(doc, "setup_string", strict, FALSE).value,
      parameter_settings |-> FlowOf(doc, strict).parameters,
      dataset_id |-> DatasetOf(doc, strict).dataset_id,
      output_files |-> << FilesOf(FileList(doc)) >>,
      evaluations |-> << EvaluationsOf(EvaluationList(doc), "global") >>,
      fold_evaluations |-> << EvaluationsOf(EvaluationList(doc), "fold") >>,
      sample_evaluations |-> << EvaluationsOf(EvaluationList(doc), "sample") >>,
      tags |-> ExtractXmlTags(doc),
      data_content |-> None,
      trace |-> None ]

\* _create_run_from_xml(xml, from_server).
CreateRunFromXml(doc, strict, task_type) ==
    IF CreateRunRaised(doc, strict, task_type) # "none"
       THEN [ raised |-> CreateRunRaised(doc, strict, task_type), run |-> None ]
       ELSE [ raised |-> "none", run |-> << CreatedRun(doc, strict) >> ]

(***************************************************************************)
(* The encoder of the run document (openml/runs/run.py), by the schema:    *)
(* numbers as decimal numerals, an unset field left out, a run without a   *)
(* flow id written with an empty flow_id and without parameter settings.   *)
(***************************************************************************)
RECURSIVE SetToSeq(_)
SetToSeq(S) ==
    IF S = { } THEN << >>
    ELSE LET x == CHOOSE y \in S : TRUE IN << x >> \o SetToSeq(S \ { x })

IntText(n) == Numerals[n + 1]

FloatText(tenths) == Decimals[tenths + 1]

\* A field that holds a number, or that holds a string, as an element.
NumberElement(field) == IF field = None THEN << >> ELSE << IntText(field[1]) >>

StringElement(field) == field

\* A map that is None is written as no entries.
EntriesOf(map) == IF map = None THEN << >> ELSE SetToSeq(DOMAIN map[1])

EvaluationElement(map, key) ==
    [ name |-> key[1],
      value |-> IF map[1][key].float # None
                   THEN << FloatText(map[1][key].float[1]) >> ELSE << >>,
      array_data |-> map[1][key].array_data,
      repeat |-> IF Len(key) >= 2 THEN << IntText(key[2]) >> ELSE << >>,
      fold |-> IF Len(key) >= 3 THEN << IntText(key[3]) >> ELSE << >>,
      sample |-> IF Len(key) >= 4 THEN << IntText(key[4]) >> ELSE << >> ]

EvaluationElements(map) ==
    [ i \in 1..Len(EntriesOf(map)) |-> EvaluationElement(map, EntriesOf(map)[i]) ]

FileElements(map) ==
    [ i \in 1..Len(EntriesOf(map)) |->
        [ name |-> EntriesOf(map)[i], file_id |-> IntText(map[1][EntriesOf(map)[i]]) ] ]

ToXml(r) ==
    [ run_id |-> NumberElement(r.run_id),
      uploader |-> NumberElement(r.uploader),
      uploader_name |-> StringElement(r.uploader_name),
      task_id |-> NumberElement(r.task_id),
      task_type |-> StringElement(r.task_type),
      task_evaluation_measure |-> StringElement(r.task_evaluation_measure),
      flow_id |-> IF r.flow_id = None THEN << Null >> ELSE NumberElement(r.flow_id),
      flow_name |-> StringElement(r.flow_name),
      setup_id |-> NumberElement(r.setup_id),
      setup_string |-> StringElement(r.setup_string),
      parameter_setting |->
          IF r.flow_id = None \/ r.parameter_settings = None
             THEN << >> ELSE r.parameter_settings[1],
      input_data |-> NumberElement(r.dataset_id),
      output_data |->
          << [ file |-> FileElements(r.output_files),
               evaluation |-> EvaluationElements(r.evaluations)
                                  \o EvaluationElements(r.fold_evaluations)
                                  \o EvaluationElements(r.sample_evaluations) ] >>,
      tag |-> IF r.tags = None THEN << >> ELSE r.tags[1] ]

(***************************************************************************)
(* The documents and run records the decoder is explored with.             *)
(***************************************************************************)
\* The keys of the run dictionary whose presence the decoder looks at.
DocFields ==
    { "run_id", "uploader", "uploader_name", "task_id", "task_type",
      "task_evaluation_measure", "flow_id", "flow_name", "setup_id", "setup_string",
      "input_data", "output_data" }

\* The keys that hold one element of text.
TextFields == DocFields \ { "output_data" }

ParameterEntries ==
    { [ name |-> n, value |-> "1", component |-> c ] :
        n \in { "max_depth", "criterion" }, c \in { << >>, << "9" >> } }

\* The lists of at most n parameter settings.
ParameterLists(n) == UNION { [ 1..k -> ParameterEntries ] : k \in 0..n }

\* Evaluation entries: a value, array_data or neither, with every
\* combination of the repeat, fold and sample attributes.
EvaluationEntries ==
    { [ name |-> n, value |-> v[1], array_data |-> v[2],
        repeat |-> r, fold |-> f, sample |-> sm ] :
        n \in { "predictive_accuracy", "area_under_roc_curve" },
        v \in { << << "0.7" >>, << >> >>, << << >>, << "[0.5,0.6]" >> >>,
                << << >>, << >> >> },
        r \in { << >>, << "0" >> }, f \in { << >>, << "1" >> },
        sm \in { << >>, << "2" >> } }

\* The lists of at most n evaluations.
EvaluationLists(n) == UNION { [ 1..k -> EvaluationEntries ] : k \in 0..n }

BothFiles ==
    << [ name |-> "description", file_id |-> "11" ],
       [ name |-> "predictions", file_id |-> "12" ] >>

FileLists == { << >>, << BothFiles[1] >>, << BothFiles[2] >>, BothFiles }

\* A complete document as the service returns it.
ServerDocument(file, evaluation, parameter_setting) ==
    [ run_id |-> << "10" >>,
      uploader |-> << "2" >>,
      uploader_name |-> << "ann" >>,
      task_id |-> << "1" >>,
      task_type |-> << "Supervised Classification" >>,
      task_evaluation_measure |-> << "predictive_accuracy" >>,
      flow_id |-> << "9" >>,
      flow_name |-> << "sklearn.tree.DecisionTreeClassifier" >>,
      setup_id |-> << "5" >>,
      setup_string |-> << "DecisionTreeClassifier()" >>,
      parameter_setting |-> parameter_setting,
      input_data |-> << "3" >>,
      output_data |-> << [ file |-> file, evaluation |-> evaluation ] >>,
      tag |-> << "openml-python" >> ]

\* The document without the keys in absent and with the keys in empty
\* present as empty elements.
Lacking(doc, absent, empty) ==
    [ k \in DOMAIN doc |->
        IF k \in absent THEN << >>
        ELSE IF k \in empty THEN << Null >>
        ELSE doc[k] ]

OneEvaluation ==
    << [ name |-> "predictive_accuracy", value |-> << "0.7" >>, array_data |-> << >>,
         repeat |-> << "0" >>, fold |-> << "1" >>, sample |-> << >> ] >>

OneParameter == << [ name |-> "max_depth", value |-> "1", component |-> << >> ] >>

TwoParameters ==
    OneParameter \o << [ name |-> "criterion", value |-> "1", component |-> << "9" >> ] >>

\* Documents that lack up to n keys and have up to one empty element.
FieldDocuments(n) ==
    { Lacking(ServerDocument(fl, OneEvaluation, OneParameter), absent, empty) :
        fl \in FileLists,
        absent \in { a \in SUBSET DocFields : Cardinality(a) <= n },
        empty \in { e \in SUBSET TextFields : Cardinality(e) <= 1 } }

\* Complete documents with up to n parameter settings, flow_id absent, empty
\* or set.
FlowDocuments(n) ==
    { Lacking(ServerDocument(fl, OneEvaluation, ps), absent, empty) :
        fl \in FileLists, ps \in ParameterLists(n),
        absent \in SUBSET { "flow_id" }, empty \in SUBSET { "flow_id" } }

\* Complete documents with up to n evaluations.
EvaluationDocuments(n) ==
    { ServerDocument(BothFiles, ev, OneParameter) : ev \in EvaluationLists(n) }

\* Evaluation maps, files and tables of the run records that are encoded.
GlobalMap ==
    [ key \in { << "predictive_accuracy" >> } |-> [ float |-> << 9 >>, array_data |-> None ] ]

FoldMap ==
    [ key \in { << "predictive_accuracy", 0, f >> : f \in 0..1 } |->
        [ float |-> << 7 + key[3] >>, array_data |-> None ] ]

SampleMap ==
    [ key \in { << "predictive_accuracy", 0, 0, sm >> : sm \in 0..1 } |->
        [ float |-> << 5 + key[4] >>, array_data |-> None ] ]

FileMap == [ name \in { "description", "predictions" } |-> 11 ]

OptionalOf(value) == { None, << value >> }

\* Run records: written locally (no identifiers of the service) or fetched,
\* with or without a flow id, maps, tags, prediction table and trace.
SourceRuns ==
    { [ run_id |-> IF fetched THEN << 10 >> ELSE None,
        uploader |-> IF fetched THEN << 2 >> ELSE None,
        uploader_name |-> IF fetched THEN << "ann" >> ELSE None,
        task_id |-> << 1 >>,
        task_type |-> IF fetched THEN << "Supervised Classification" >> ELSE None,
        task_evaluation_measure |-> None,
        flow_id |-> IF ps = None THEN None ELSE << 9 >>,
        flow_name |-> << "sklearn.tree.DecisionTreeClassifier" >>,
        setup_id |-> IF fetched THEN << 5 >> ELSE None,
        setup_string |-> << "DecisionTreeClassifier()" >>,
        parameter_settings |-> ps,
        dataset_id |-> << 3 >>,
        output_files |-> fm,
        evaluations |-> gm,
        fold_evaluations |-> fe,
        sample_evaluations |-> se,
        tags |-> tg,
        data_content |-> dc,
        trace |-> tr ] :
        fetched \in BOOLEAN,
        ps \in { None, << << >> >>, << OneParameter >>, << TwoParameters >> },
        fm \in OptionalOf(FileMap), gm \in OptionalOf(GlobalMap),
        fe \in OptionalOf(FoldMap), se \in OptionalOf(SampleMap),
        tg \in OptionalOf(<< "openml-python" >>),
        dc \in OptionalOf(<< << 0, 0, 0, 0, 7, 3, "L0", "L1" >> >>),
        tr \in OptionalOf("trace") }

InitDecode ==
    /\ SweepIdle
    /\ TraceInit
    /\ pc = "decode"
    /\ error = "none"
    /\ server \in { [ NoServer EXCEPT !.task_type = tt ] :
                      tt \in { "subgroup_discovery", "other" } }
    /\ \/ /\ source_run = None
          /\ \/ xml \in FieldDocuments(MaxLacking)
             \/ xml \in FlowDocuments(MaxParameters)
             \/ xml \in EvaluationDocuments(MaxEvaluations) /\ server = NoServer
       \/ \E r \in SourceRuns : xml = ToXml(r) /\ source_run = << r >>
    /\ flow = [ flow_id |-> None ]
    /\ upload_flow = FALSE
    /\ avoid_duplicate_runs = FALSE
    /\ flow_id = None
    /\ queries = << >>
    /\ exists_args = None
    /\ ids = { }
    /\ run = None
    /\ from_server = None
    /\ decoded = None
    /\ CacheIdle

\* One call of _create_run_from_xml(xml, from_server).
CreateRun(strict) ==
    /\ pc = "decode"
    /\ pc' = "decoded"
    /\ from_server' = << strict >>
    /\ LET out == CreateRunFromXml(xml, strict, server.task_type)
       IN  /\ error' = out.raised
           /\ decoded' = out.run
    /\ UNCHANGED << xml, source_run >>
    /\ UNCHANGED << sweepVars, traceVars, flowVars, cacheVars >>

NextDecode == \E strict \in BOOLEAN : CreateRun(strict)

SpecDecode == InitDecode /\ [][NextDecode]_vars

(***************************************************************************)
(* get_run and its cache (lines 548-579 and 741-754).                      *)
(***************************************************************************)
MaxGets == 3

\* A get_run that takes a cached document it cannot decode for a missing one
\* and fetches the document again.
MutGetRunFetchesAgain(cached, served, task_type) ==
    LET attempt == IF cached = None THEN [ raised |-> "OpenMLCacheException", run |-> None ]
                   ELSE CreateRunFromXml(cached[1], TRUE, task_type)
    IN  IF attempt.raised = "none"
           THEN [ fetched |-> FALSE, wrote |-> FALSE, raised |-> "none",
                  run |-> attempt.run, file |-> cached ]
        ELSE IF served = None
           THEN [ fetched |-> TRUE, wrote |-> FALSE, raised |-> "OpenMLServerException",
                  run |-> None, file |-> cached ]
           ELSE [ fetched |-> TRUE, wrote |-> TRUE,
                  raised |-> CreateRunFromXml(served[1], TRUE, task_type).raised,
                  run |-> CreateRunFromXml(served[1], TRUE, task_type).run,
                  file |-> served ]

\* get_run for one run id, given the cached description.xml of the id (None
\* when there is no such file) and what the service answers for the id (None
\* when it answers with a server exception).  Lines 741-754: the cached file
\* is read and decoded with from_server = True; only the failure to read it
\* becomes OpenMLCacheException, an exception of the decode leaves get_run.
\* Lines 573-579: on OpenMLCacheException the document is requested, written
\* to description.xml, and then decoded.
GetRun(cached, served, task_type) ==
    IF cached # None
       THEN [ fetched |-> FALSE, wrote |-> FALSE,
              raised |-> CreateRunFromXml(cached[1], TRUE, task_type).raised,
              run |-> CreateRunFromXml(cached[1], TRUE, task_type).run,
              file |-> cached ]
    ELSE IF served = None
       THEN [ fetched |-> TRUE, wrote |-> FALSE, raised |-> "OpenMLServerException",
              run |-> None, file |-> None ]
       ELSE [ fetched |-> TRUE, wrote |-> TRUE,
              raised |-> CreateRunFromXml(served[1], TRUE, task_type).raised,
              run |-> CreateRunFromXml(served[1], TRUE, task_type).run,
              file |-> served ]

\* Run documents: a complete one, one without run_id, one without a
\* predictions file.
CacheDocuments ==
    { ServerDocument(BothFiles, OneEvaluation, OneParameter),
      Lacking(ServerDocument(BothFiles, OneEvaluation, OneParameter), { "run_id" }, { }),
      ServerDocument(<< BothFiles[1] >>, OneEvaluation, OneParameter) }

\* What a run id can have in the cache directory, or at the service.
Stored == { None } \cup { << doc >> : doc \in CacheDocuments }

\* The cache directory as an earlier process left it, and the service.
InitCache ==
    /\ SweepIdle
    /\ TraceInit
    /\ DecodeIdle
    /\ pc = "cache"
    /\ error = "none"
    /\ server \in { [ NoServer EXCEPT !.task_type = tt ] :
                      tt \in { "subgroup_discovery", "other" } }
    /\ flow = [ flow_id |-> None ]
    /\ upload_flow = FALSE
    /\ avoid_duplicate_runs = FALSE
    /\ flow_id = None
    /\ queries = << >>
    /\ exists_args = None
    /\ ids = { }
    /\ run = None
    /\ cache \in [ RunIds -> Stored ]
    /\ remote \in [ RunIds -> Stored ]
    /\ gets = << >>

\* One call of get_run(run_id).
CallGetRun(run_id) ==
    /\ pc = "cache"
    /\ Len(gets) < MaxGets
    /\ LET out == GetRun(cache[run_id], remote[run_id], server.task_type)
       IN  /\ cache' = [ cache EXCEPT ![run_id] = out.file ]
           /\ gets' = Append(gets, [ run_id |-> run_id, fetched |-> out.fetched,
                                     wrote |-> out.wrote, raised |-> out.raised ])
           /\ error' = out.raised
           /\ decoded' = out.run
           /\ from_server' = IF out.file # None THEN << TRUE >> ELSE from_server
    /\ UNCHANGED << pc, remote, xml, source_run >>
    /\ UNCHANGED << sweepVars, traceVars, flowVars >>

NextCache == \E run_id \in RunIds : CallGetRun(run_id)

SpecCache == InitCache /\ [][NextCache]_vars

(***************************************************************************)
(* Properties.                                                             *)
(***************************************************************************)
\* The n-th cell of the cross product in lexicographic order, repeat
\* outermost and sample innermost.
CellAt(t, n) ==
    << (n - 1) \div (t.num_folds * t.num_samples),
       ((n - 1) \div t.num_samples) % t.num_folds,
       (n - 1) % t.num_samples >>

SweepOver == pc \in { "after_loop", "returned" }

\* Number of cells whose loop body has run to its end.
CellsDone ==
    IF SweepOver THEN NumCells(task)
    ELSE CellIndex(task, rep_no, fold_no, sample_no) - 1

\* Number of test instances of the first n cells.
RECURSIVE RowsThrough(_, _)
RowsThrough(t, n) ==
    IF n = 0 THEN 0
    ELSE RowsThrough(t, n - 1)
           + Len(TestIndices(CellAt(t, n)[1], CellAt(t, n)[2], CellAt(t, n)[3]))

\* For each row of the table after n cells, in order: the cell it belongs
\* to and the position of the test instance within the cell, from 0.
RECURSIVE RowOrigins(_, _)
RowOrigins(t, n) ==
    IF n = 0 THEN << >>
    ELSE RowOrigins(t, n - 1)
           \o [ i \in 1..Len(TestIndices(CellAt(t, n)[1], CellAt(t, n)[2], CellAt(t, n)[3]))
                  |-> [ cell |-> CellAt(t, n), instance |-> i - 1 ] ]

OutputOf(c) == RunModelOnFold(task, model, c[1], c[2], c[3])

\* C1: the fold executor is invoked once per cell of repeat x fold x sample,
\* in lexicographic order with repeat outermost and sample innermost: the
\* invocations so far are always the first cells of that order, each once,
\* and a sweep that reaches the end of the loop has invoked it for all cells.
C1_SweepOrder ==
    /\ Len(calls) <= NumCells(task)
    /\ \A n \in 1..Len(calls) : calls[n] = CellAt(task, n)
    /\ SweepOver => Len(calls) = NumCells(task)

C1_Witness ==
    /\ pc = "returned"
    /\ task.num_reps = 2 /\ task.num_folds = 2 /\ task.num_samples = 3
    /\ Len(calls) = 12
    /\ calls[4] = << 0, 1, 0 >>

\* C2: after a complete sweep the per-fold map holds, for every measure,
\* repeat and fold, the value the per-sample map holds for the last sample
\* num_samples - 1 of that fold.
C2_PerFoldIsLastSample ==
    LET per_fold   == user_defined_measures_per_fold
        per_sample == user_defined_measures_per_sample
        last       == task.num_samples - 1
    IN  SweepOver =>
          /\ DOMAIN per_fold = { << k[1], k[2], k[3] >> : k \in DOMAIN per_sample }
          /\ \A r \in 0..(task.num_reps - 1), f \in 0..(task.num_folds - 1) :
                 << "usercpu_time_millis", r, f >> \in DOMAIN per_fold
          /\ \A k \in DOMAIN per_fold :
                 /\ << k[1], k[2], k[3], last >> \in DOMAIN per_sample
                 /\ per_fold[k] = per_sample[<< k[1], k[2], k[3], last >>]
          /\ pc = "returned" =>
                 /\ res[1].user_defined_measures_per_fold = per_fold
                 /\ res[1].user_defined_measures_per_sample = per_sample

\* One fold of a learning curve with three samples whose values differ.
C2_Witness ==
    LET per_fold   == user_defined_measures_per_fold
        per_sample == user_defined_measures_per_sample
        m          == "usercpu_time_millis"
    IN  /\ pc = "returned"
        /\ task.kind = "learning_curve"
        /\ task.num_samples = 3
        /\ per_sample[<< m, 0, 0, 0 >>] # per_sample[<< m, 0, 0, 2 >>]
        /\ per_sample[<< m, 0, 0, 1 >>] # per_sample[<< m, 0, 0, 2 >>]
        /\ per_fold[<< m, 0, 0 >>] = per_sample[<< m, 0, 0, 2 >>]

\* Row p of the table carries the identifying fields of instance i of cell c.
RowIdentifies(row, c, i) ==
    IF IsClassificationOrLearningCurve(task)
        THEN SubSeq(row, 1, 4) = << c[1], c[2], c[3], i >>
    ELSE IF IsRegressionTask(task)
        THEN SubSeq(row, 1, 3) = << c[1], c[2], TestIndices(c[1], c[2], c[3])[i + 1] >>
    ELSE row[1] = TestIndices(c[1], c[2], c[3])[i + 1]

\* C3: the prediction table holds one row per test instance of every cell
\* swept (its length is the sum of the cells' test-set sizes), the rows of
\* an earlier cell before those of a later one and the rows of a cell in the
\* order of test_indices; the table returned is that table.
C3_OneRowPerTestInstance ==
    LET origin == RowOrigins(task, CellsDone)
    IN  /\ Len(arff_datacontent) = RowsThrough(task, CellsDone)
        /\ Len(arff_datacontent) = Len(origin)
        /\ \A p \in 1..Len(arff_datacontent) :
               RowIdentifies(arff_datacontent[p], origin[p].cell, origin[p].instance)
        /\ pc = "returned" => res[1].arff_datacontent = arff_datacontent

C3_Witness ==
    /\ pc = "returned"
    /\ task.kind = "regression"
    /\ task.num_reps = 2 /\ task.num_folds = 2
    /\ Len(res[1].arff_datacontent) = 6
    /\ res[1].arff_datacontent[5][3] = 2
    /\ res[1].arff_datacontent[6][3] = 1

\* C4: every row of a classification or learning-curve task with k labels
\* has 4 + k + 2 fields: repeat, fold, sample, the position within the fold,
\* the k probabilities in label order, the predicted label, the true label.
C4_ClassificationRow ==
    LET origin == RowOrigins(task, CellsDone)
    IN  IsClassificationOrLearningCurve(task) =>
          /\ Len(arff_datacontent) = Len(origin)
          /\ \A p \in 1..Len(arff_datacontent) :
               LET c   == origin[p].cell
                   i   == origin[p].instance
                   out == OutputOf(c)
                   row == arff_datacontent[p]
               IN  /\ Len(row) = 4 + NumClasses(task) + 2
                   /\ Len(out.proba_y[i + 1]) = NumClasses(task)
                   /\ row = << c[1], c[2], c[3], i >>
                              \o out.proba_y[i + 1]
                              \o << task.class_labels[out.pred_y[i + 1] + 1],
                                    task.class_labels[TestY(task, c[1], c[2], c[3])[i + 1] + 1] >>

\* Three labels, predicted index 1 with probabilities 0.2, 0.7, 0.1 and true
\* index 2.
C4_Witness ==
    /\ pc = "returned"
    /\ task.kind = "classification"
    /\ NumClasses(task) = 3
    /\ \E p \in 1..Len(arff_datacontent) :
           LET c == RowOrigins(task, NumCells(task))[p].cell
               i == RowOrigins(task, NumCells(task))[p].instance
           IN  /\ OutputOf(c).pred_y[i + 1] = 1
               /\ TestY(task, c[1], c[2], c[3])[i + 1] = 2
               /\ SubSeq(arff_datacontent[p], 5, 9) = << 2, 7, 1, "L1", "L2" >>

\* C5 (as claimed): a cell whose probability matrix has fewer columns than
\* the task has labels does not stop the sweep, and its rows carry one
\* probability per label, zero for every label without a column.
C5_ShortProbabilitiesZeroPadded ==
    \A n \in 1..Len(calls) :
        LET c   == calls[n]
            out == OutputOf(c)
        IN  ( /\ IsClassificationOrLearningCurve(task)
              /\ ~FaultAt(task, c[1], c[2], c[3], "raise")
              /\ ProbaColumns(task, c[1], c[2], c[3]) < NumClasses(task) )
            => /\ pc # "raised"
               /\ Len(arff_datacontent) >= RowsThrough(task, n)
               /\ \A p \in (RowsThrough(task, n - 1) + 1)..RowsThrough(task, n) :
                      LET i == p - RowsThrough(task, n - 1) - 1 IN
                      SubSeq(arff_datacontent[p], 5, 4 + NumClasses(task))
                          = out.proba_y[i + 1]
                              \o [ j \in 1..(NumClasses(task) - Len(out.proba_y[i + 1])) |-> 0 ]

\* C6: a regression row is [repeat, fold, test_indices[i], pred_y[i],
\* test_y[i]] and a clustering row is [test_indices[i], pred_y[i]]: the row
\* id is the dataset row, and there is neither a sample nor a probability.
C6_RegressionAndClusteringRows ==
    LET origin == RowOrigins(task, CellsDone)
    IN  (IsRegressionTask(task) \/ IsClusteringTask(task)) =>
          /\ Len(arff_datacontent) = Len(origin)
          /\ \A p \in 1..Len(arff_datacontent) :
               LET c    == origin[p].cell
                   i    == origin[p].instance
                   out  == OutputOf(c)
                   rows == TestIndices(c[1], c[2], c[3])
                   row  == arff_datacontent[p]
               IN  /\ IsRegressionTask(task) =>
                        row = << c[1], c[2], rows[i + 1], out.pred_y[i + 1],
                                 TestY(task, c[1], c[2], c[3])[i + 1] >>
                   /\ IsClusteringTask(task) =>
                        row = << rows[i + 1], out.pred_y[i + 1] >>

\* A regression row whose dataset row differs from its position in the fold.
C6_Witness ==
    /\ pc = "returned"
    /\ IsRegressionTask(task)
    /\ \E p \in 1..Len(arff_datacontent) :
           /\ RowOrigins(task, NumCells(task))[p].instance = 0
           /\ arff_datacontent[p][3] = 2
           /\ Len(arff_datacontent[p]) = 5

UnsupportedTask(t) ==
    t.kind \notin { "classification", "learning_curve", "regression", "clustering" }

C8_TraceFromLastCell ==
    pc = "returned" =>
        IF model.is_hpo
           THEN /\ res[1].trace # None
                /\ res[1].trace[1].built_from =
                       [ is_hpo |-> TRUE,
                         fitted_in |-> << task.num_reps - 1, task.num_folds - 1,
                                          task.num_samples - 1 >> ]
                /\ res[1].trace[1].content = arff_tracecontent
                /\ Len(arff_tracecontent) = NumCells(task) * MaxCandidates
           ELSE res[1].trace = None /\ arff_tracecontent = << >>

C8_Witness ==
    /\ pc = "returned"
    /\ model.is_hpo
    /\ NumCells(task) = 12
    /\ res[1].trace[1].built_from.fitted_in = << 1, 1, 2 >>

\* C9 (as claimed): in the trace rows of a complete sweep of a
\* hyperparameter-search model exactly one row is marked selected for every
\* (repeat, fold).
C9_OneSelectedPerRepeatFold ==
    (pc = "returned" /\ model.is_hpo) =>
        \A r \in 0..(task.num_reps - 1), f \in 0..(task.num_folds - 1) :
            Cardinality({ p \in 1..Len(arff_tracecontent) :
                            /\ arff_tracecontent[p][1] = r
                            /\ arff_tracecontent[p][2] = f
                            /\ arff_tracecontent[p][5] = "true" }) = 1

\* C10: a lookup without an iteration uses, for (repeat, fold), the iteration
\* with the maximal score among the trace iterations of (repeat, fold), the
\* lowest index among those of maximal score.
C10_SelectsFirstMaximum ==
    (args # None /\ args[1].iteration = None) =>
        LET r   == args[1].repeat
            f   == args[1].fold
            its == { i \in 0..MaxIterations : << r, f, i >> \in DOMAIN trace_iterations }
        IN  IF its = { }
               THEN error = "ValueError" /\ current = None
               ELSE /\ error = "none"
                    /\ request # None /\ current # None
                    /\ request[1][1] = r /\ request[1][2] = f
                    /\ request[1][3] \in its
                    /\ current[1] = trace_iterations[request[1]]
                    /\ \A i \in its :
                           /\ trace_iterations[<< r, f, i >>].score <= current[1].score
                           /\ i < request[1][3] =>
                                  trace_iterations[<< r, f, i >>].score < current[1].score

\* Scores 0.7, 0.9, 0.9, 0.5 of (repeat 0, fold 0) select iteration 1.
C10_Witness ==
    /\ args = << [ repeat |-> 0, fold |-> 0, iteration |-> None ] >>
    /\ { k \in DOMAIN trace_iterations : k[1] = 0 /\ k[2] = 0 }
           = { << 0, 0, i >> : i \in 0..3 }
    /\ trace_iterations[<< 0, 0, 0 >>].score = 7
    /\ trace_iterations[<< 0, 0, 1 >>].score = 9
    /\ trace_iterations[<< 0, 0, 2 >>].score = 9
    /\ trace_iterations[<< 0, 0, 3 >>].score = 5
    /\ request = << << 0, 0, 1 >> >>
    /\ current # None
    /\ current[1].iteration = 1

\* The call of run_exists made by this step, when the step is one.
Called == exists_args'[1]

\* C11: run_exists(task_id, setup_id) with setup_id <= 0 returns the empty
\* set and sends no listing request to the service, whatever the task id and
\* whatever the service would have answered.
C11_NoLookupWithoutSetup ==
    [][ (pc = "guard" /\ exists_args' # None /\ Called.setup_id <= 0)
            => /\ ids' = { }
               /\ error' = "none"
               /\ queries' = queries ]_vars

\* A call with setup id 0 has returned the empty set although the service
\* lists runs, and after an earlier call that did ask the service.
C11_Witness ==
    /\ pc = "guard"
    /\ exists_args # None
    /\ exists_args[1].setup_id = 0
    /\ server.listing.runs = RunIds
    /\ Len(queries) = 1
    /\ ids = { }

\* C13: when the listing answers with server error code 512, run_exists
\* returns the empty set and raises nothing.
C13_NoResultsIsEmptySet ==
    (/\ pc = "guard"
     /\ exists_args # None
     /\ exists_args[1].setup_id > 0
     /\ server.listing.code = 512)
        => /\ ids = { }
           /\ error = "none"
           /\ queries # << >>
           /\ queries[Len(queries)]
                  = Query("list_runs", exists_args[1].task_id, exists_args[1].setup_id)

C13_Witness ==
    /\ pc = "guard"
    /\ exists_args # None
    /\ exists_args[1].setup_id = 2
    /\ server.listing.code = 512
    /\ Len(queries) = 1
    /\ ids = { }
    /\ error = "none"

\* The listing of runs was requested in this call and answered with run ids.
ListingFoundRuns ==
    /\ \E n \in 1..Len(queries) : queries[n].op = "list_runs"
    /\ server.listing.code = 0
    /\ server.listing.runs # { }

\* C12: when avoid_duplicate_runs is set, the flow exists on the server and
\* the listing for (task_id, setup_id) returns a non-empty set of run ids,
\* run_flow_on_task raises OpenMLRunsExistError carrying exactly that set,
\* before any cell is executed: the fold executor is never invoked, the
\* call does not go on, and no run is produced.
C12_DuplicateRunsAbortBeforeSweep ==
    (pc \notin { "guard", "lookup", "decode" } /\ ListingFoundRuns)
        => /\ avoid_duplicate_runs
           /\ flow_id = << server.flow_id >>
           /\ exists_args = << [ task_id |-> TaskIdOf(task),
                                 setup_id |-> server.setup_id ] >>
           /\ pc = "raised"
           /\ error = "OpenMLRunsExistError"
           /\ ids = server.listing.runs
           /\ calls = << >>
           /\ arff_datacontent = << >>
           /\ res = None
           /\ run = None
           /\ ~ENABLED NextFlow

\* Setup 5 with the listing {10, 11}: the call has ended with the
\* duplicate-runs condition carrying {10, 11}.
C12_Witness ==
    /\ pc = "raised"
    /\ error = "OpenMLRunsExistError"
    /\ exists_args # None
    /\ exists_args[1].setup_id = 5
    /\ server.listing.runs = { 10, 11 }
    /\ ids = { 10, 11 }
    /\ calls = << >>

\* The exceptions that the fold executor or the row encoding raise in a cell.
FatalInCell == { "ExecutorError", "IndexError", "TypeError" }

\* C19: when the fold executor or the row encoding raises in a cell c, the
\* cells invoked are exactly those up to c, once each (no cell after c, no
\* retry of c), the exception leaves run_flow_on_task as it was raised,
\* nothing more happens, and neither a run nor the sweep's partial table
\* and evaluation maps are returned.
C19_FatalConditionAbortsRun ==
    (pc \notin { "guard", "lookup", "decode" } /\ error \in FatalInCell)
        => /\ pc = "raised"
           /\ calls # << >>
           /\ \A n \in 1..Len(calls) : calls[n] = CellAt(task, n)
           /\ calls[Len(calls)] = << rep_no, fold_no, sample_no >>
           /\ res = None
           /\ run = None
           /\ ~ENABLED NextFlow

\* The executor raised in the second of four cells, after the first cell
\* had left rows and measures behind.
C19_Witness ==
    /\ pc = "raised"
    /\ error = "ExecutorError"
    /\ Len(calls) = 2
    /\ NumCells(task) = 4
    /\ arff_datacontent # << >>
    /\ user_defined_measures_per_sample # << >>
    /\ flow_id # None
    /\ run = None

\* The requests of one kind among those sent in this call.
Asked(op) == \E n \in 1..Len(queries) : queries[n].op = op

\* C20: the run returned by run_flow_on_task has a flow_id other than None
\* only if in this call flow_exists found the flow on the server or the
\* flow was published; with neither upload_flow nor avoid_duplicate_runs no
\* request is sent and flow_id is None; with the flow absent from the server
\* and upload_flow false flow_id is None.
C20_FlowIdOnlyAfterSync ==
    (pc = "done" /\ run # None)
        => /\ run[1].flow_id # None
                => /\ Asked("flow_exists")
                   /\ \/ server.flow_id # 0 /\ run[1].flow_id = << server.flow_id >>
                      \/ Asked("publish") /\ run[1].flow_id = << server.new_flow_id >>
           /\ (~upload_flow /\ ~avoid_duplicate_runs)
                => queries = << >> /\ run[1].flow_id = None
           /\ (server.flow_id = 0 /\ ~upload_flow) => run[1].flow_id = None

\* A run whose flow was published in this call carries the new flow id.
C20_Witness ==
    /\ pc = "done"
    /\ run # None
    /\ upload_flow
    /\ Asked("publish")
    /\ run[1].flow_id = << server.new_flow_id >>
    /\ run[1].parameter_settings # None

\* The keys a document lacks, and the keys it has as empty elements.
Absent(doc) == { f \in DocFields : doc[f] = << >> }

Empty(doc) == { f \in TextFields : doc[f] = << Null >> }

Strict == pc = "decoded" /\ from_server = << TRUE >>

Lenient == pc = "decoded" /\ from_server = << FALSE >>

\* The fields the schema marks as required; input_data stands for
\* input_data.dataset.did.
RequiredFields ==
    { "run_id", "uploader", "uploader_name", "task_id", "task_type", "flow_id",
      "flow_name", "setup_id", "setup_string", "input_data", "output_data" }

\* C14: in strict decode, a document that lacks one of the required fields
\* (and nothing else) fails with AttributeError, the condition of
\* obtain_field, and no run is returned.
C14_StrictDecodeRejectsIncomplete ==
    (/\ Strict
     /\ \E f \in RequiredFields : Absent(xml) = { f }
     /\ Empty(xml) = { })
        => /\ error = "AttributeError"
           /\ decoded = None

\* The fields a locally written document may lack.
LenientFields ==
    { "run_id", "uploader", "uploader_name", "task_type", "task_evaluation_measure",
      "flow_id", "flow_name", "setup_id", "setup_string", "input_data", "output_data" }

\* The field of the run that a key of the document is decoded into.
RunFieldOf(f) == IF f = "input_data" THEN "dataset_id" ELSE f

\* C15: in lenient decode, a document that lacks any of the fields a local
\* document may lack decodes without an exception, the run's field is None,
\* and without output_data the files and the evaluation maps are empty.
C15_LenientDecodeAcceptsIncomplete ==
    (/\ Lenient
     /\ Absent(xml) # { }
     /\ Absent(xml) \subseteq LenientFields
     /\ Empty(xml) = { })
        => /\ error = "none"
           /\ decoded # None
           /\ \A f \in Absent(xml) \ { "output_data" } : decoded[1][RunFieldOf(f)] = None
           /\ "output_data" \in Absent(xml)
                => /\ decoded[1].output_files = << << >> >>
                   /\ decoded[1].evaluations = << << >> >>
                   /\ decoded[1].fold_evaluations = << << >> >>
                   /\ decoded[1].sample_evaluations = << << >> >>

\* The exception the claim names for a document without a predictions file.
RejectionOf(task_type) ==
    IF task_type = "subgroup_discovery" THEN "NotImplementedError" ELSE "ValueError"

\* A document whose every evaluation has a value or array_data.
EvaluationsComplete(doc) ==
    \A i \in 1..Len(EvaluationList(doc)) :
        EvaluationList(doc)[i].value # << >> \/ EvaluationList(doc)[i].array_data # << >>

\* C16 as stated: in strict decode every document without a predictions
\* file (with all required fields otherwise) is rejected with
\* NotImplementedError for a subgroup-discovery task and with ValueError
\* otherwise; in lenient decode a document that is otherwise decodable
\* raises nothing for lacking predictions or description.
C16_MissingPredictionsAsStated ==
    /\ (/\ Strict
        /\ ~HasFile(xml, "predictions")
        /\ Absent(xml) \cap RequiredFields = { }
        /\ Empty(xml) = { }
        /\ EvaluationsComplete(xml))
          => decoded = None /\ error = RejectionOf(server.task_type)
    /\ (/\ Lenient
        /\ ~HasFile(xml, "predictions") \/ ~HasFile(xml, "description")
        /\ Absent(xml) \cap { "task_id", "flow_id" } = { }
        /\ Empty(xml) \subseteq { "flow_id" }
        /\ EvaluationsComplete(xml))
          => decoded # None /\ error = "none"

\* C16, amended: in strict decode every document without a predictions file
\* is rejected; when the document lacks nothing else (all required fields,
\* no empty element, a description file) the exception is NotImplementedError
\* for a subgroup-discovery task and ValueError otherwise.  In lenient decode
\* a document that is otherwise decodable raises nothing for lacking
\* predictions or description.
C16_MissingPredictions ==
    /\ (Strict /\ ~HasFile(xml, "predictions"))
          => /\ decoded = None
             /\ error # "none"
             /\ (/\ HasFile(xml, "description")
                 /\ Absent(xml) \cap RequiredFields = { }
                 /\ Empty(xml) = { }
                 /\ EvaluationsComplete(xml))
                   => error = RejectionOf(server.task_type)
    /\ (/\ Lenient
        /\ ~HasFile(xml, "predictions") \/ ~HasFile(xml, "description")
        /\ Absent(xml) \cap { "task_id", "flow_id" } = { }
        /\ Empty(xml) \subseteq { "flow_id" }
        /\ EvaluationsComplete(xml))
          => decoded # None /\ error = "none"

\* A complete document of a subgroup-discovery task with a description and
\* without predictions has been rejected with NotImplementedError.
C16_Witness ==
    /\ Strict
    /\ server.task_type = "subgroup_discovery"
    /\ HasFile(xml, "description")
    /\ ~HasFile(xml, "predictions")
    /\ Absent(xml) = { }
    /\ Empty(xml) = { }
    /\ error = "NotImplementedError"
    /\ decoded = None

\* C17: lenient decode of a document whose flow_id is empty gives a run with
\* flow_id None and parameter settings None, whatever parameter_setting
\* entries the document has; whenever flow_id is present the parameter
\* settings are a list with one entry per parameter_setting element, in
\* document order.
C17_ParametersFollowFlowId ==
    (pc = "decoded" /\ decoded # None)
        => /\ (Lenient /\ xml.flow_id = << Null >>)
                => /\ decoded[1].flow_id = None
                   /\ decoded[1].parameter_settings = None
           /\ (xml.flow_id # << >> /\ xml.flow_id # << Null >>)
                => /\ decoded[1].flow_id = << IntOf(xml.flow_id[1]) >>
                   /\ decoded[1].parameter_settings # None
                   /\ Len(decoded[1].parameter_settings[1]) = Len(xml.parameter_setting)
                   /\ \A n \in 1..Len(xml.parameter_setting) :
                        LET got == decoded[1].parameter_settings[1][n]
                            elt == xml.parameter_setting[n]
                        IN  /\ got.name = elt.name
                            /\ got.value = elt.value
                            /\ got.component = elt.component

\* A local document with an empty flow_id and two parameter_setting
\* entries has been decoded into a run without parameter settings.
C17_Witness ==
    /\ Lenient
    /\ xml.flow_id = << Null >>
    /\ Len(xml.parameter_setting) = 2
    /\ decoded # None
    /\ decoded[1].parameter_settings = None

\* The fields of a run that the document carries as one element or list.
DocumentFields ==
    { "run_id", "uploader", "uploader_name", "task_id", "task_type",
      "task_evaluation_measure", "flow_id", "flow_name", "setup_id", "setup_string",
      "parameter_settings", "dataset_id", "tags" }

\* The fields of a run that are maps.
MapFields == { "output_files", "evaluations", "fold_evaluations", "sample_evaluations" }

\* A document written from a run record has been decoded in lenient mode.
RoundTrip == Lenient /\ source_run # None

\* A map field of the decoded run equals the source's, None taken as empty.
SameMap(f) ==
    decoded[1][f] = IF source_run[1][f] = None THEN << << >> >> ELSE source_run[1][f]

C21_OtherListingFailuresSurface ==
    (pc \notin { "guard", "lookup", "decode", "decoded", "cache" } /\ Asked("list_runs"))
        => /\ server.listing.code \notin { 0, 512 }
                => /\ pc = "raised"
                   /\ error = "AssertionError"
                   /\ ids = { }
                   /\ calls = << >>
                   /\ res = None
                   /\ run = None
                   /\ ~ENABLED NextFlow
           /\ server.listing.code = 512
                => /\ error # "AssertionError"
                   /\ ids = { }
                   /\ pc # "start"
                   /\ pc = "raised" => calls # << >> \/ error = "NotImplementedError"

\* The listing failed with code 500 during the duplicate check and the call
\* has ended with that failure before the sweep.
C21_Witness ==
    /\ pc = "raised"
    /\ avoid_duplicate_runs
    /\ Asked("list_runs")
    /\ server.listing.code = 500
    /\ error = "AssertionError"
    /\ calls = << >>

\* C23: the run record returned by run_flow_on_task carries exactly one of
\* the two maps the sweep computed: for a learning-curve task the per-sample
\* map and no per-fold map, for every other task the per-fold map and no
\* per-sample map.  The per-fold map of a learning-curve sweep, although
\* computed, is not part of the run record.
C23_OneEvaluationMapAttached ==
    (pc = "done" /\ run # None /\ res # None)
        => /\ (run[1].fold_evaluations = None) # (run[1].sample_evaluations = None)
           /\ task.kind = "learning_curve"
                => /\ run[1].sample_evaluations
                          = << res[1].user_defined_measures_per_sample >>
                   /\ run[1].fold_evaluations = None
           /\ task.kind # "learning_curve"
                => /\ run[1].fold_evaluations
                          = << res[1].user_defined_measures_per_fold >>
                   /\ run[1].sample_evaluations = None

\* A learning-curve sweep computed a per-fold map with entries, and the run
\* record returned carries the per-sample map only.
C23_Witness ==
    /\ pc = "done"
    /\ run # None
    /\ res # None
    /\ task.kind = "learning_curve"
    /\ res[1].user_defined_measures_per_fold # << >>
    /\ DOMAIN res[1].user_defined_measures_per_fold # { }
    /\ run[1].fold_evaluations = None
    /\ run[1].sample_evaluations = << res[1].user_defined_measures_per_sample >>

\* The attributes an evaluation entry carries.
AttributesOf(e) == { a \in { "repeat", "fold", "sample" } : e[a] # << >> }

\* The map an entry belongs to by its attributes, and its key there.
PerSample(e) == AttributesOf(e) = { "repeat", "fold", "sample" }

PerFold(e) == AttributesOf(e) = { "repeat", "fold" }

Global(e) == ~PerSample(e) /\ ~PerFold(e)

\* The entries of a list that satisfy a test and are stored under a key.
LaterWins(ev, positions, map, key) ==
    /\ { key[i] : i \in positions } = DOMAIN map
    /\ \A i \in positions :
           (\A j \in positions : j > i => key[j] # key[i])
               => map[key[i]] = EvaluationValue(ev[i])

\* C22: decoding the evaluation entries of a document stores every entry in
\* exactly one of three maps: an entry with repeat, fold and sample in
\* sample_evaluations under (name, repeat, fold, sample); an entry with
\* repeat and fold and no sample in fold_evaluations under (name, repeat,
\* fold); every other entry in evaluations under its name.  The maps hold
\* nothing else, and of two entries with the same key the later one stays.
\* A document with an entry that has neither value nor array_data is
\* rejected with ValueError, in strict and in lenient decode.
C22_EvaluationRouting ==
    (pc = "decoded" /\ source_run = None /\ Absent(xml) = { }
        /\ Empty(xml) = { } /\ HasFile(xml, "description")
        /\ HasFile(xml, "predictions"))
        => LET ev  == EvaluationList(xml)
               all == 1..Len(ev)
           IN  IF \E i \in all : ev[i].value = << >> /\ ev[i].array_data = << >>
                  THEN error = "ValueError" /\ decoded = None
                  ELSE /\ error = "none"
                       /\ decoded # None
                       /\ LaterWins(ev, { i \in all : PerSample(ev[i]) },
                                    decoded[1].sample_evaluations[1],
                                    [ i \in all |-> << ev[i].name, 0, 1, 2 >> ])
                       /\ LaterWins(ev, { i \in all : PerFold(ev[i]) },
                                    decoded[1].fold_evaluations[1],
                                    [ i \in all |-> << ev[i].name, 0, 1 >> ])
                       /\ LaterWins(ev, { i \in all : Global(ev[i]) },
                                    decoded[1].evaluations[1],
                                    [ i \in all |-> << ev[i].name >> ])

\* Two entries of the same name that carry a sample attribute without a
\* repeat were decoded: both went to the global map, where the second one's
\* array_data replaced the first one's value; the other maps are empty.
C22_Witness ==
    /\ pc = "decoded"
    /\ error = "none"
    /\ decoded # None
    /\ LET ev == EvaluationList(xml)
       IN  /\ Len(ev) = 2
           /\ ev[1].name = ev[2].name
           /\ AttributesOf(ev[1]) = { "sample" }
           /\ AttributesOf(ev[2]) = { "fold", "sample" }
           /\ ev[1].value # << >>
           /\ ev[2].array_data # << >>
           /\ decoded[1].evaluations[1][<< ev[1].name >>]
                  = [ float |-> None, array_data |-> ev[2].array_data ]
           /\ DOMAIN decoded[1].fold_evaluations[1] = { }
           /\ DOMAIN decoded[1].sample_evaluations[1] = { }

\* The positions of the get_run calls made for a run id.
GetsOf(run_id) == { i \in 1..Len(gets) : gets[i].run_id = run_id }

====
